---- MODULE Spec2Model ----
(***************************************************************************)
(* A model of server/db.py of PortalChat: the Database class, its seven    *)
(* tables and the operations on them.                                      *)
(*                                                                         *)
(* db   is what the one shared sqlite3 connection sees (committed rows     *)
(*      plus the rows of its open transaction);                            *)
(* disk is what is committed in the database file.                         *)
(*                                                                         *)
(* Python's sqlite3 opens a transaction implicitly before an INSERT or     *)
(* UPDATE and keeps it open until conn.commit().  PRAGMA foreign_keys is   *)
(* never switched on, so the FOREIGN KEY clauses of the schema are not     *)
(* enforced; PRIMARY KEY and CHECK constraints are.                        *)
(***************************************************************************)
EXTENDS Integers, Sequences, FiniteSets, TLC

VARIABLES db, disk, title, clock, ret, nops, pc, loc, cur

vars == <<db, disk, title, clock, ret, nops, pc, loc, cur>>

---------------------------------------------------------------------------
(* Bounds of the model *)

MaxOps == 3
MaxClock == 1
MaxCalls == 2

---------------------------------------------------------------------------
(* Inputs *)

SYSTEM_UUID == "00000000-0000-0000-0000-000000000000"

\* server_info["title"] of the first start, and the titles of later starts
FirstTitle == "Town Square"

Titles == {FirstTitle, "Annex"}

UUIDs == {SYSTEM_UUID, "u1"}

UserNames == {"alice", "bob"}

ServerIds == {1, 2}

ChannelNames == {"general", "random"}

Contents == {"hi"}

valid_permissions ==
    {"send_messages", "view_message_history", "mute_members", "kick_members",
     "ban_members", "manage_channels", "manage_server", "super_admin"}

AskedPermissions == {"send_messages", "manage_server", "fly"}

\* create_role's arguments: name, rank, permissions
RoleInputs ==
    { <<"DefaultPerms", 0, [k \in {} |-> TRUE]>>,
      <<"Admin", 255, [k \in {"manage_server"} |-> TRUE]>>,
      <<"Muted", 0, [k \in {"send_messages"} |-> FALSE]>>,
      <<"Admin", 256, [k \in {"manage_server"} |-> TRUE]>>,
      <<"Muted", -1, [k \in {"send_messages"} |-> FALSE]>> }

---------------------------------------------------------------------------
(* Python values: None and a one-element wrapper for anything else *)

None == <<>>

Some(x) == <<x>>

Max(S) == CHOOSE x \in S : \A y \in S : y <= x

---------------------------------------------------------------------------
(* The schema *)

EmptyTables ==
    [servers |-> {}, users |-> {}, memberships |-> {}, channels |-> {},
     messages |-> {}, roles |-> {}, user_roles |-> {}]

\* INTEGER PRIMARY KEY [AUTOINCREMENT]: no row is ever deleted, so the next
\* id is one more than the largest id of the table
NextRowid(ids) == IF ids = {} THEN 1 ELSE Max(ids) + 1

\* RankCheck with the upper limit one too high
RankCheck_UpTo256(rank) == rank >= 0 /\ rank <= 256

\* CHECK (rank >= 0 AND rank <= 255)
RankCheck(rank) == rank >= 0 /\ rank <= 255

\* LIMIT 1 over a table scan: the row the scan meets first
FirstRow(rows, key) ==
    IF rows = {} THEN None
    ELSE Some(CHOOSE r \in rows : \A q \in rows : r[key] <= q[key])

---------------------------------------------------------------------------
(* Results of an operation: the store it leaves and what the caller gets *)

Return(s, v) == [db |-> s.db, disk |-> s.disk, status |-> "ok", val |-> v]

Raise(s, e) == [db |-> s.db, disk |-> s.disk, status |-> e, val |-> None]

commit(s) == [s EXCEPT !.disk = s.db]

---------------------------------------------------------------------------
(* Queries *)

get_server_by_name(d, server_name) ==
    FirstRow({r \in d.servers : r.name = server_name}, "server_id")

get_channel_by_name(d, server_id, channel_name) ==
    FirstRow({r \in d.channels : r.server_id = server_id /\ r.name = channel_name},
             "channel_id")

get_role_by_name(d, name) ==
    FirstRow({r \in d.roles : r.name = name}, "role_id")

user_exists(d, user_uuid) == \E u \in d.users : u.user_uuid = user_uuid

is_user_in_server(d, user_uuid, server_id) ==
    <<user_uuid, server_id>> \in d.memberships

get_roles_for_user_in_server(d, user_uuid, server_id) ==
    {r \in d.roles : <<user_uuid, r.role_id, server_id>> \in d.user_roles}

\* MaxPermission with MIN for MAX: every role would have to grant the permission
MinPermission(d, user_uuid, server_id, permission) ==
    LET vals == {r[permission] : r \in get_roles_for_user_in_server(d, user_uuid, server_id)}
    IN  IF vals = {} THEN None
        ELSE Some(CHOOSE x \in vals : \A y \in vals : x <= y)

\* SELECT MAX(r.<permission>) over the join: one row, NULL when the join is empty
MaxPermission(d, user_uuid, server_id, permission) ==
    LET vals == {r[permission] : r \in get_roles_for_user_in_server(d, user_uuid, server_id)}
    IN  IF vals = {} THEN None ELSE Some(Max(vals))

can_user(d, user_uuid, server_id, permission) ==
    IF permission \notin valid_permissions
    THEN [status |-> "ValueError", val |-> None]
    ELSE LET result == Some(MaxPermission(d, user_uuid, server_id, permission))
         IN  [status |-> "ok",
              val |-> Some(result # None /\ result[1] = Some(1))]

---------------------------------------------------------------------------
(* Mutating operations.  Each takes the store s = [db, disk] it starts    *)
(* from and yields the store it leaves, its status and its return value.  *)

\* int(b) of a Python bool
int(b) == IF b THEN 1 ELSE 0

\* get with the default dropped: a missing permission counts as False
get_NoDefault(permissions, k, default) ==
    IF k \in DOMAIN permissions THEN permissions[k] ELSE FALSE

\* permissions.get(k, default)
get(permissions, k, default) ==
    IF k \in DOMAIN permissions THEN permissions[k] ELSE default

create_role(s, name, rank, permissions) ==
    IF ~RankCheck(rank) THEN Raise(s, "IntegrityError")
    ELSE LET role_id == NextRowid({r.role_id : r \in s.db.roles})
             row == [role_id |-> role_id, name |-> name, rank |-> rank,
                     send_messages |-> int(get(permissions, "send_messages", TRUE)),
                     view_message_history |-> int(get(permissions, "view_message_history", TRUE)),
                     mute_members |-> int(get(permissions, "mute_members", FALSE)),
                     kick_members |-> int(get(permissions, "kick_members", FALSE)),
                     ban_members |-> int(get(permissions, "ban_members", FALSE)),
                     manage_channels |-> int(get(permissions, "manage_channels", FALSE)),
                     manage_server |-> int(get(permissions, "manage_server", FALSE)),
                     super_admin |-> int(get(permissions, "super_admin", FALSE))]
             s1 == [s EXCEPT !.db.roles = @ \cup {row}]
         IN  Return(commit(s1), Some(role_id))

\* assign_role_to_user with INSERT OR REPLACE keyed on (user_uuid, server_id):
\* the new role takes the place of the roles the user held in that server
assign_role_to_user_Replace(s, user_uuid, role_id, server_id) ==
    LET s1 == [s EXCEPT !.db.user_roles =
                   {a \in @ : ~(a[1] = user_uuid /\ a[3] = server_id)}
                       \cup {<<user_uuid, role_id, server_id>>}]
    IN  Return(commit(s1), None)

\* assign_role_to_user with a plain INSERT: the primary key rejects a triple
\* that is already assigned
assign_role_to_user_Strict(s, user_uuid, role_id, server_id) ==
    IF <<user_uuid, role_id, server_id>> \in s.db.user_roles
    THEN Raise(s, "IntegrityError")
    ELSE LET s1 == [s EXCEPT !.db.user_roles =
                        @ \cup {<<user_uuid, role_id, server_id>>}]
         IN  Return(commit(s1), None)

\* INSERT OR IGNORE on the primary key (user_uuid, role_id, server_id)
assign_role_to_user(s, user_uuid, role_id, server_id) ==
    LET s1 == [s EXCEPT !.db.user_roles = @ \cup {<<user_uuid, role_id, server_id>>}]
    IN  Return(commit(s1), None)

\* the role id add_user_to_server passes to assign_role_to_user
AutoRoleId == 1

\* add_user_to_server without the is_user_in_server test of lines 377-378,
\* the INSERT ignoring a row that is already there
add_user_to_server_NoCheck(s, user_uuid, server_id) ==
    LET s1 == [s EXCEPT !.db.memberships = @ \cup {<<user_uuid, server_id>>}]
        r  == assign_role_to_user(s1, user_uuid, AutoRoleId, server_id)
    IN  [r EXCEPT !.val = Some("cursor")]

\* add_user_to_server without its call of assign_role_to_user
add_user_to_server_NoRole(s, user_uuid, server_id) ==
    IF is_user_in_server(s.db, user_uuid, server_id) THEN Raise(s, "ValueError")
    ELSE LET s1 == [s EXCEPT !.db.memberships = @ \cup {<<user_uuid, server_id>>}]
         IN  Return(commit(s1), Some("cursor"))

add_user_to_server(s, user_uuid, server_id) ==
    IF is_user_in_server(s.db, user_uuid, server_id) THEN Raise(s, "ValueError")
    ELSE LET s1 == [s EXCEPT !.db.memberships = @ \cup {<<user_uuid, server_id>>}]
             r  == assign_role_to_user(s1, user_uuid, AutoRoleId, server_id)
         IN  [r EXCEPT !.val = Some("cursor")]

create_server(s, server_name) ==
    IF get_server_by_name(s.db, server_name) # None THEN Raise(s, "ValueError")
    ELSE LET server_id == NextRowid({r.server_id : r \in s.db.servers})
             s1 == [s EXCEPT !.db.servers =
                        @ \cup {[server_id |-> server_id, name |-> server_name]}]
         IN  Return(commit(s1), Some(server_id))

\* the server id create_user passes to add_user_to_server
AutoServerId == 1

\* create_user without the user_exists test of lines 366-367, the INSERT
\* replacing the row of that uuid
create_user_NoCheck(s, user_name, uuid) ==
    LET user_uuid == Cardinality(s.db.users) + 1
        s1 == [s EXCEPT !.db.users =
                   {u \in @ : u.user_uuid # uuid}
                       \cup {[user_uuid |-> uuid, username |-> user_name]}]
        r  == add_user_to_server(commit(s1), uuid, AutoServerId)
    IN  IF r.status # "ok" THEN r ELSE [r EXCEPT !.val = Some(user_uuid)]

\* the value returned is cur.lastrowid of the INSERT into users, the rowid of
\* the new row: users has as many rowids as rows
create_user(s, user_name, uuid) ==
    IF user_exists(s.db, uuid) THEN Raise(s, "ValueError")
    ELSE LET user_uuid == Cardinality(s.db.users) + 1
             s1 == [s EXCEPT !.db.users =
                        @ \cup {[user_uuid |-> uuid, username |-> user_name]}]
             r  == add_user_to_server(commit(s1), uuid, AutoServerId)
         IN  IF r.status # "ok" THEN r ELSE [r EXCEPT !.val = Some(user_uuid)]

\* UPDATE users SET username: no commit follows
update_username(s, uuid, new_username) ==
    LET s1 == [s EXCEPT !.db.users =
                   {IF u.user_uuid = uuid THEN [u EXCEPT !.username = new_username] ELSE u
                      : u \in @}]
    IN  Return(s1, None)

server_exists(d, server_id) == \E r \in d.servers : r.server_id = server_id

create_channel_in_server(s, server_id, channel_name) ==
    IF get_channel_by_name(s.db, server_id, channel_name) # None THEN Return(s, None)
    ELSE IF ~server_exists(s.db, server_id) THEN Raise(s, "ValueError")
    ELSE LET channel_id == NextRowid({r.channel_id : r \in s.db.channels})
             s1 == [s EXCEPT !.db.channels =
                        @ \cup {[channel_id |-> channel_id, name |-> channel_name,
                                 server_id |-> server_id]}]
         IN  Return(commit(s1), Some(channel_id))

channel_exists(d, channel_id) == \E r \in d.channels : r.channel_id = channel_id

\* now is CURRENT_TIMESTAMP at the INSERT
create_message_in_channel(s, channel_id, user_uuid, user_name, content, now) ==
    IF ~channel_exists(s.db, channel_id) THEN Raise(s, "ValueError")
    ELSE IF ~user_exists(s.db, user_uuid) THEN Raise(s, "ValueError")
    ELSE LET message_id == NextRowid({m.message_id : m \in s.db.messages})
             s1 == [s EXCEPT !.db.messages =
                        @ \cup {[message_id |-> message_id, content |-> content,
                                 timestamp |-> now, user_uuid |-> user_uuid,
                                 user_name |-> user_name, channel_id |-> channel_id]}]
         IN  Return(commit(s1), Some(message_id))

\* u.username of the LEFT JOIN: NULL when no users row matches
JoinedUsername(d, user_uuid) ==
    IF user_exists(d, user_uuid)
    THEN Some((CHOOSE u \in d.users : u.user_uuid = user_uuid).username)
    ELSE None

HistoryRows(d, channel_id) ==
    {[message_id |-> m.message_id, content |-> m.content, timestamp |-> m.timestamp,
      username |-> JoinedUsername(d, m.user_uuid)]
       : m \in {x \in d.messages : x.channel_id = channel_id}}

\* ORDER BY m.timestamp ASC: every listing of the rows in which timestamps
\* never decrease; SQL leaves the order of rows with equal timestamps open
get_messages_in_channel(d, channel_id) ==
    LET rows == HistoryRows(d, channel_id)
        n == Cardinality(rows)
    IN  {q \in [1..n -> rows] :
            /\ \A i, j \in 1..n : i # j => q[i] # q[j]
            /\ \A i, j \in 1..n : i < j => q[i].timestamp <= q[j].timestamp}

\* Bootstrap without the test of line 123: DefaultPerms is created on every start
Bootstrap_AlwaysCreateRole(s, t) ==
    LET found == get_server_by_name(s.db, t)
        s1 == IF found = None THEN create_server(s, t) ELSE Return(s, None)
        server_id == IF found = None THEN s1.val[1] ELSE found[1].server_id
        s2 == IF get_channel_by_name(s1.db, server_id, "general") = None
              THEN create_channel_in_server(s1, server_id, "general")
              ELSE Return(s1, None)
        s3 == create_role(s2, "DefaultPerms", 0, [k \in {} |-> TRUE])
        s4 == IF ~user_exists(s3.db, SYSTEM_UUID)
              THEN create_user(s3, "SYSTEM", SYSTEM_UUID)
              ELSE Return(s3, None)
    IN  IF s4.status # "ok" THEN s4 ELSE Return(commit(s4), None)

\* lines 113-130 of __init__, run on the store the new connection opens
Bootstrap(s, t) ==
    LET found == get_server_by_name(s.db, t)
        s1 == IF found = None THEN create_server(s, t) ELSE Return(s, None)
        server_id == IF found = None THEN s1.val[1] ELSE found[1].server_id
        s2 == IF get_channel_by_name(s1.db, server_id, "general") = None
              THEN create_channel_in_server(s1, server_id, "general")
              ELSE Return(s1, None)
        s3 == IF get_role_by_name(s2.db, "DefaultPerms") = None
              THEN create_role(s2, "DefaultPerms", 0, [k \in {} |-> TRUE])
              ELSE Return(s2, None)
        s4 == IF ~user_exists(s3.db, SYSTEM_UUID)
              THEN create_user(s3, "SYSTEM", SYSTEM_UUID)
              ELSE Return(s3, None)
    IN  IF s4.status # "ok" THEN s4 ELSE Return(commit(s4), None)

---------------------------------------------------------------------------
(* The callers' threads (used by the concurrent specification only) *)

Threads == {1, 2}

\* seen: the answers an undisturbed can_user would have given in the states
\* the call of the thread has passed through so far
IdleLoc == [op |-> "none", args |-> <<>>, row |-> None, id |-> 0, seen |-> {}]

EmptyCursor == [rows |-> <<>>, lastrowid |-> 0]

---------------------------------------------------------------------------
(* Init: Database(server, db_path) has been constructed on a new file *)

Store == [db |-> db, disk |-> disk]

Result(op, args, r) == [op |-> op, args |-> args, status |-> r.status, val |-> r.val]

Init ==
    LET r == Bootstrap([db |-> EmptyTables, disk |-> EmptyTables], FirstTitle)
    IN  /\ db = r.db
        /\ disk = r.disk
        /\ title = FirstTitle
        /\ clock = 0
        /\ ret = Result("__init__", <<FirstTitle>>, r)
        /\ nops = 0
        /\ pc = [t \in Threads |-> "idle"]
        /\ loc = [t \in Threads |-> IdleLoc]
        /\ cur = EmptyCursor

---------------------------------------------------------------------------
(* Sequential use: one caller, every operation runs to its end *)

Do(op, args, r) ==
    /\ nops < MaxOps
    /\ db' = r.db
    /\ disk' = r.disk
    /\ ret' = Result(op, args, r)
    /\ nops' = nops + 1
    /\ UNCHANGED <<title, clock, pc, loc, cur>>

Ask(op, args, r) ==
    /\ ret' = [op |-> op, args |-> args, status |-> r.status, val |-> r.val]
    /\ UNCHANGED <<db, disk, title, clock, nops, pc, loc, cur>>

\* close() of the old connection drops its open transaction; the new
\* Database reads what was committed and runs lines 113-130
Restart ==
    \E t \in Titles :
        LET r == Bootstrap([db |-> disk, disk |-> disk], t)
        IN  /\ nops < MaxOps
            /\ db' = r.db
            /\ disk' = r.disk
            /\ title' = t
            /\ ret' = Result("__init__", <<t>>, r)
            /\ nops' = nops + 1
            /\ UNCHANGED <<clock, pc, loc, cur>>

CreateServer ==
    \E name \in Titles : Do("create_server", <<name>>, create_server(Store, name))

CreateUser ==
    \E name \in UserNames, u \in UUIDs :
        Do("create_user", <<name, u>>, create_user(Store, name, u))

AddUserToServer ==
    \E u \in UUIDs, sid \in ServerIds :
        Do("add_user_to_server", <<u, sid>>, add_user_to_server(Store, u, sid))

CreateRole ==
    \E i \in RoleInputs :
        Do("create_role", i, create_role(Store, i[1], i[2], i[3]))

AssignRoleToUser ==
    \E u \in UUIDs, rid \in 1..2, sid \in ServerIds :
        Do("assign_role_to_user", <<u, rid, sid>>, assign_role_to_user(Store, u, rid, sid))

UpdateUsername ==
    \E u \in UUIDs, name \in UserNames :
        Do("update_username", <<u, name>>, update_username(Store, u, name))

CreateChannelInServer ==
    \E sid \in ServerIds, name \in ChannelNames :
        Do("create_channel_in_server", <<sid, name>>,
           create_channel_in_server(Store, sid, name))

CreateMessageInChannel ==
    \E ch \in 1..2, u \in UUIDs, name \in UserNames, c \in Contents :
        Do("create_message_in_channel", <<ch, u, name, c>>,
           create_message_in_channel(Store, ch, u, name, c, clock))

\* CURRENT_TIMESTAMP has a resolution of one second
Tick ==
    /\ clock < MaxClock
    /\ clock' = clock + 1
    /\ UNCHANGED <<db, disk, title, ret, nops, pc, loc, cur>>

CanUser ==
    \E u \in UUIDs, sid \in ServerIds, p \in AskedPermissions :
        Ask("can_user", <<u, sid, p>>, can_user(db, u, sid, p))

GetRolesForUserInServer ==
    \E u \in UUIDs, sid \in ServerIds :
        Ask("get_roles_for_user_in_server", <<u, sid>>,
            [status |-> "ok", val |-> get_roles_for_user_in_server(db, u, sid)])

GetMessagesInChannel ==
    \E ch \in 1..2 : \E q \in get_messages_in_channel(db, ch) :
        Ask("get_messages_in_channel", <<ch>>, [status |-> "ok", val |-> q])

Next ==
    \/ Restart
    \/ CreateServer
    \/ CreateUser
    \/ AddUserToServer
    \/ CreateRole
    \/ AssignRoleToUser
    \/ UpdateUsername
    \/ CreateChannelInServer
    \/ CanUser
    \/ GetRolesForUserInServer

Spec == Init /\ [][Next]_vars

\* the message store and what it reads
NextMsg ==
    \/ CreateUser
    \/ UpdateUsername
    \/ CreateChannelInServer
    \/ CreateMessageInChannel
    \/ Tick
    \/ GetMessagesInChannel

SpecMsg == Init /\ [][NextMsg]_vars

---------------------------------------------------------------------------
(* Concurrent use: check_same_thread=False lets every thread use the one   *)
(* connection self.conn and the one cursor self.cur.  A thread may be      *)
(* preempted between any two statements of a method, so each execute,      *)
(* fetchone, read of lastrowid and commit is a step of its own.            *)

\* cur.execute of a SELECT: the cursor holds the result rows
Select(rows) == [cur EXCEPT !.rows = rows]

\* cur.fetchone(): the next row of whatever the cursor holds now
Fetched == IF cur.rows = <<>> THEN None ELSE Some(Head(cur.rows))

AfterFetch == [cur EXCEPT !.rows = IF @ = <<>> THEN <<>> ELSE Tail(@)]

Goto(t, label) == pc' = [pc EXCEPT ![t] = label]

\* the permissions the concurrent callers ask for
ConcPermissions == {"send_messages", "manage_server"}

\* a result row of get_server_by_name: server_id, name
ServerRows(found) ==
    IF found = None THEN <<>>
    ELSE << <<Some(found[1].server_id), Some(found[1].name)>> >>

\* the call of thread t ends: it returns v or raises
Finish(t, status, v) ==
    /\ pc' = [pc EXCEPT ![t] = "idle"]
    /\ loc' = [loc EXCEPT ![t] = IdleLoc]
    /\ ret' = [op |-> loc[t].op, args |-> loc[t].args, status |-> status, val |-> v]

Call(t) ==
    /\ pc[t] = "idle"
    /\ nops < MaxCalls
    /\ nops' = nops + 1
    /\ \/ \E name \in Titles :
             /\ loc' = [loc EXCEPT ![t] = [IdleLoc EXCEPT !.op = "create_server",
                                                          !.args = <<name>>]]
             /\ Goto(t, "cs_select")
       \/ \E u \in UUIDs, sid \in ServerIds :
             /\ loc' = [loc EXCEPT ![t] = [IdleLoc EXCEPT !.op = "add_user_to_server",
                                                          !.args = <<u, sid>>]]
             /\ Goto(t, "au_select")
       \/ \E u \in UUIDs, sid \in ServerIds, p \in ConcPermissions :
             /\ loc' = [loc EXCEPT ![t] = [IdleLoc EXCEPT !.op = "can_user",
                                                          !.args = <<u, sid, p>>,
                                                          !.seen = {can_user(db, u, sid, p).val}]]
             /\ Goto(t, "cu_select")
    /\ UNCHANGED <<db, disk, title, clock, ret, cur>>

\* create_server, line 357: get_server_by_name executes its SELECT
cs_select(t) ==
    /\ pc[t] = "cs_select"
    /\ cur' = Select(ServerRows(get_server_by_name(db, loc[t].args[1])))
    /\ Goto(t, "cs_fetch")
    /\ UNCHANGED <<db, disk, title, clock, ret, nops, loc>>

\* lines 274 and 357-358: fetchone, raise when a row came back
cs_fetch(t) ==
    /\ pc[t] = "cs_fetch"
    /\ cur' = AfterFetch
    /\ IF Fetched # None
       THEN Finish(t, "ValueError", None)
       ELSE Goto(t, "cs_insert") /\ UNCHANGED <<loc, ret>>
    /\ UNCHANGED <<db, disk, title, clock, nops>>

\* line 360: INSERT INTO servers
cs_insert(t) ==
    /\ pc[t] = "cs_insert"
    /\ LET server_id == NextRowid({r.server_id : r \in db.servers})
       IN  /\ db' = [db EXCEPT !.servers =
                        @ \cup {[server_id |-> server_id, name |-> loc[t].args[1]]}]
           /\ cur' = [rows |-> <<>>, lastrowid |-> server_id]
    /\ Goto(t, "cs_lastrowid")
    /\ UNCHANGED <<disk, title, clock, ret, nops, loc>>

\* line 361: server_id = self.cur.lastrowid
cs_lastrowid(t) ==
    /\ pc[t] = "cs_lastrowid"
    /\ loc' = [loc EXCEPT ![t].id = cur.lastrowid]
    /\ Goto(t, "cs_commit")
    /\ UNCHANGED <<db, disk, title, clock, ret, nops, cur>>

\* lines 362-363: commit, return server_id
cs_commit(t) ==
    /\ pc[t] = "cs_commit"
    /\ disk' = db
    /\ Finish(t, "ok", Some(loc[t].id))
    /\ UNCHANGED <<db, title, clock, nops, cur>>

\* add_user_to_server, line 377: is_user_in_server executes its SELECT
au_select(t) ==
    /\ pc[t] = "au_select"
    /\ cur' = Select(IF is_user_in_server(db, loc[t].args[1], loc[t].args[2])
                     THEN << <<Some(1)>> >> ELSE <<>>)
    /\ Goto(t, "au_fetch")
    /\ UNCHANGED <<db, disk, title, clock, ret, nops, loc>>

\* lines 410 and 377-378: fetchone, raise when a row came back
au_fetch(t) ==
    /\ pc[t] = "au_fetch"
    /\ cur' = AfterFetch
    /\ IF Fetched # None
       THEN Finish(t, "ValueError", None)
       ELSE Goto(t, "au_insert") /\ UNCHANGED <<loc, ret>>
    /\ UNCHANGED <<db, disk, title, clock, nops>>

\* line 384: INSERT INTO memberships; its primary key rejects a second row
au_insert(t) ==
    /\ pc[t] = "au_insert"
    /\ IF <<loc[t].args[1], loc[t].args[2]>> \in db.memberships
       THEN Finish(t, "IntegrityError", None) /\ UNCHANGED <<db, cur>>
       ELSE /\ db' = [db EXCEPT !.memberships =
                         @ \cup {<<loc[t].args[1], loc[t].args[2]>>}]
            /\ cur' = [cur EXCEPT !.rows = <<>>]
            /\ Goto(t, "ar_insert")
            /\ UNCHANGED <<loc, ret>>
    /\ UNCHANGED <<disk, title, clock, nops>>

\* assign_role_to_user, lines 160-163: INSERT OR IGNORE INTO user_roles
ar_insert(t) ==
    /\ pc[t] = "ar_insert"
    /\ LET row == <<loc[t].args[1], AutoRoleId, loc[t].args[2]>>
       IN  /\ db' = [db EXCEPT !.user_roles = @ \cup {row}]
           /\ cur' = IF row \in db.user_roles
                     THEN [cur EXCEPT !.rows = <<>>]
                     ELSE [rows |-> <<>>, lastrowid |-> Cardinality(db.user_roles) + 1]
    /\ Goto(t, "ar_commit")
    /\ UNCHANGED <<disk, title, clock, ret, nops, loc>>

\* line 165: commit; line 386: return result
ar_commit(t) ==
    /\ pc[t] = "ar_commit"
    /\ disk' = db
    /\ Finish(t, "ok", Some("cursor"))
    /\ UNCHANGED <<db, title, clock, nops, cur>>

\* can_user, lines 216-221: execute SELECT MAX(r.<permission>)
cu_select(t) ==
    /\ pc[t] = "cu_select"
    /\ cur' = Select(<< <<MaxPermission(db, loc[t].args[1], loc[t].args[2],
                                         loc[t].args[3])>> >>)
    /\ loc' = [loc EXCEPT ![t].seen =
                   @ \cup {can_user(db, loc[t].args[1], loc[t].args[2],
                                    loc[t].args[3]).val}]
    /\ Goto(t, "cu_fetch")
    /\ UNCHANGED <<db, disk, title, clock, ret, nops>>

\* lines 222-224: result = fetchone(); return result and result[0] == 1
cu_fetch(t) ==
    /\ pc[t] = "cu_fetch"
    /\ cur' = AfterFetch
    /\ LET result == Fetched
       IN  Finish(t, "ok", IF result = None THEN None
                           ELSE Some(result[1][1] = Some(1)))
    /\ UNCHANGED <<db, disk, title, clock, nops>>

NextConc ==
    \E t \in Threads :
        \/ Call(t)
        \/ cs_select(t)
        \/ cs_fetch(t)
        \/ cs_insert(t)
        \/ cs_lastrowid(t)
        \/ cs_commit(t)
        \/ au_select(t)
        \/ au_fetch(t)
        \/ au_insert(t)
        \/ ar_insert(t)
        \/ ar_commit(t)
        \/ cu_select(t)
        \/ cu_fetch(t)

SpecConc == Init /\ [][NextConc]_vars

---------------------------------------------------------------------------
(* Properties *)

\* the role bootstrap creates: DefaultPerms, rank 0, the schema's defaults
IsDefaultRole(r) ==
    /\ r.name = "DefaultPerms"
    /\ r.rank = 0
    /\ r.send_messages = 1
    /\ r.view_message_history = 1
    /\ r.mute_members = 0
    /\ r.kick_members = 0
    /\ r.ban_members = 0
    /\ r.manage_channels = 0
    /\ r.manage_server = 0
    /\ r.super_admin = 0

\* C1: a member is never permission-less.  In every state reached by
\* completed operations each membership (u, s) comes with the assignment
\* (u, 1, s), rolesOf(u, s) contains the default role and
\* can(u, s, "send_messages") is true.
C1_NeverPermissionless ==
    \A m \in db.memberships :
        /\ <<m[1], 1, m[2]>> \in db.user_roles
        /\ \E r \in get_roles_for_user_in_server(db, m[1], m[2]) :
              r.role_id = 1 /\ IsDefaultRole(r)
        /\ can_user(db, m[1], m[2], "send_messages") = [status |-> "ok", val |-> Some(TRUE)]

\* create_user("..", "u1") and then add_user_to_server("u1", 2) have succeeded
C1_Witness ==
    /\ ret.op = "add_user_to_server"
    /\ ret.status = "ok"
    /\ ret.args = <<"u1", 2>>
    /\ user_exists(db, "u1")
    /\ {<<"u1", 1>>, <<"u1", 2>>} \subseteq db.memberships

\* C2: add_user_to_server commits the membership and its default role
\* together.  With concurrent callers on the shared connection no committed
\* state holds a membership (u, s) without the assignment (u, 1, s).
C2_CommittedAtomically ==
    \A m \in disk.memberships : <<m[1], 1, m[2]>> \in disk.user_roles

\* the OR of flag c over the roles assigned to u in server sid
OrOfRoles(d, u, sid, c) ==
    \E a \in d.user_roles :
        /\ a[1] = u
        /\ a[3] = sid
        /\ \E r \in d.roles : r.role_id = a[2] /\ r[c] = 1

\* C3: for every user, server and capability, can(u, s, c) is the OR of c
\* over exactly the roles assigned to u in s; with no role in s it is false,
\* and no error is raised.
C3_CanIsOrOfRoles ==
    /\ \A u \in UUIDs \cup {"u2"}, sid \in ServerIds \cup {3}, c \in valid_permissions :
          can_user(db, u, sid, c) = [status |-> "ok", val |-> Some(OrOfRoles(db, u, sid, c))]
    /\ (ret.op = "can_user" /\ ret.args[3] \in valid_permissions) =>
          /\ ret.status = "ok"
          /\ ret.val = Some(OrOfRoles(db, ret.args[1], ret.args[2], ret.args[3]))

\* can_user answered true for a user who holds, in that server, a role that
\* grants the capability and another that does not
C3_Witness ==
    /\ ret.op = "can_user"
    /\ ret.val = Some(TRUE)
    /\ \E r1, r2 \in get_roles_for_user_in_server(db, ret.args[1], ret.args[2]) :
          r1[ret.args[3]] = 1 /\ r2[ret.args[3]] = 0

\* C4: no two servers have the same name, also when several callers run
\* create_server concurrently.
C4_ServerNamesUnique ==
    \A a, b \in db.servers : a.name = b.name => a = b

\* the configured primary server: the one bootstrap looked up or created
PrimaryServerId == get_server_by_name(db, title)[1].server_id

\* C5: after a successful create_user the new user is a member of the
\* configured primary server, whatever its server_id, and holds the default
\* role there.
C5_NewUserJoinsPrimaryServer ==
    (ret.op = "create_user" /\ ret.status = "ok") =>
        /\ <<ret.args[2], PrimaryServerId>> \in db.memberships
        /\ <<ret.args[2], 1, PrimaryServerId>> \in db.user_roles

\* C6: in every reachable state a role DefaultPerms with rank 0,
\* send_messages and view_message_history true and the six others false
\* exists, and the role add_user_to_server grants (role_id 1) is that role.
C6_DefaultRoleIsRoleOne ==
    /\ \E r \in db.roles : r.role_id = AutoRoleId /\ IsDefaultRole(r)
    /\ \A r \in db.roles : r.role_id = 1 => IsDefaultRole(r)
    /\ \E r \in disk.roles : r.role_id = AutoRoleId /\ IsDefaultRole(r)

\* more roles were created, one of them named DefaultPerms as well, and a
\* user was then added to a server
C6_Witness ==
    /\ ret.op = "add_user_to_server"
    /\ ret.status = "ok"
    /\ \E r \in db.roles : r.role_id # 1 /\ r.name = "DefaultPerms"

\* a store on which the bootstrap sequence has run with title t
Bootstrapped(d, t) ==
    /\ get_server_by_name(d, t) # None
    /\ get_channel_by_name(d, get_server_by_name(d, t)[1].server_id, "general") # None
    /\ get_role_by_name(d, "DefaultPerms") # None
    /\ user_exists(d, SYSTEM_UUID)

\* a step that constructs a Database: the bootstrap sequence runs
BootstrapRuns == ret'.op = "__init__" /\ nops' # nops

PrimaryOnce ==
    /\ Cardinality({r \in db.servers : r.name = title}) = 1
    /\ Cardinality({c \in db.channels :
                       c.server_id = PrimaryServerId /\ c.name = "general"}) = 1
    /\ Cardinality({u \in db.users : u.user_uuid = SYSTEM_UUID}) = 1

\* C7 as claimed: bootstrap on a store already bootstrapped with the same
\* title changes no table, and after every run the primary server, its
\* "general" channel, the "DefaultPerms" role and the SYSTEM user each exist
\* exactly once.
C7_BootstrapExactlyOnce ==
    /\ [](ret.op = "__init__" =>
            /\ PrimaryOnce
            /\ Cardinality({r \in db.roles : r.name = "DefaultPerms"}) = 1)
    /\ [][(BootstrapRuns /\ Bootstrapped(disk, title')) =>
              (disk' = disk /\ db' = disk)]_vars

\* C7 as amended: bootstrap on a store already bootstrapped with the same
\* title changes no table, and after every run the primary server, its
\* "general" channel and the SYSTEM user each exist exactly once and a role
\* named "DefaultPerms" exists (create_role may have added more of that name;
\* bootstrap adds none when one exists).
C7_BootstrapIdempotent ==
    /\ [](ret.op = "__init__" =>
            /\ PrimaryOnce
            /\ Cardinality({r \in db.roles : r.name = "DefaultPerms"}) >= 1)
    /\ [][(BootstrapRuns /\ Bootstrapped(disk, title')) =>
              (disk' = disk /\ db' = disk)]_vars
    /\ [][(BootstrapRuns /\ get_role_by_name(disk, "DefaultPerms") # None) =>
              db'.roles = disk.roles]_vars

\* the Database was constructed again with the title of the only server,
\* after a user and a second role had been created
C7_Witness ==
    /\ ret.op = "__init__"
    /\ nops >= 3
    /\ Cardinality(db.servers) = 1
    /\ user_exists(db, "u1")
    /\ Cardinality(db.roles) = 2

\* C8: create_channel_in_server returns the id of the one channel of that
\* name in that server, whether it existed before the call or was created
\* by it.
C8_EnsureChannelReturnsId ==
    (ret.op = "create_channel_in_server" /\ ret.status = "ok") =>
        LET cs == {c \in db.channels :
                      c.server_id = ret.args[1] /\ c.name = ret.args[2]}
        IN  /\ Cardinality(cs) = 1
            /\ \A c \in cs : ret.val = Some(c.channel_id)

\* C9: history(channel) reports every message with its content and with the
\* author name that was given to create_message_in_channel, whatever
\* update_username did since.
C9_HistoryKeepsAuthorName ==
    ret.op = "get_messages_in_channel" =>
        \A i \in DOMAIN ret.val :
            \E m \in db.messages :
                /\ m.message_id = ret.val[i].message_id
                /\ m.content = ret.val[i].content
                /\ Some(m.user_name) = ret.val[i].username

\* C10: history(channel) lists the messages in creation order: a message
\* posted after another (it has the larger message_id) comes after it, also
\* when both have the same timestamp.
C10_HistoryInCreationOrder ==
    ret.op = "get_messages_in_channel" =>
        \A i, j \in DOMAIN ret.val :
            i < j => ret.val[i].message_id < ret.val[j].message_id

\* the operations that write
MutatingOps ==
    {"create_server", "create_user", "add_user_to_server", "create_role",
     "assign_role_to_user", "create_channel_in_server",
     "create_message_in_channel", "update_username"}

\* C11: every mutating operation commits its changes before it returns:
\* after a successful call the connection has no uncommitted write.
C11_CommittedOnReturn ==
    (ret.op \in MutatingOps /\ ret.status = "ok") => db = disk

\* a step in which the named operation was called and came back
Called(op) == ret'.op = op /\ nops' # nops

\* C12: user UUIDs are unique and never reused.  create_user with a uuid
\* that is registered (the SYSTEM uuid included) fails and leaves users,
\* memberships and role assignments as they were, so there is at most one
\* user per uuid.
C12_UuidNeverReused ==
    /\ [](\A a, b \in db.users : a.user_uuid = b.user_uuid => a = b)
    /\ [][(Called("create_user") /\ user_exists(db, ret'.args[2])) =>
              /\ ret'.status = "ValueError"
              /\ db' = db
              /\ disk' = disk]_vars

\* create_user was called with the uuid of a user created earlier, under
\* another name, and failed
C12_Witness ==
    /\ ret.op = "create_user"
    /\ ret.status = "ValueError"
    /\ ret.args[2] = "u1"
    /\ \E u \in db.users : u.user_uuid = "u1" /\ u.username # ret.args[1]

\* can(u, s, c) answers true
Can(d, u, sid, c) == can_user(d, u, sid, c) = [status |-> "ok", val |-> Some(TRUE)]

\* C13: can is monotonic in role assignments.  assign_role_to_user(u, r, s)
\* never turns a can result from true to false, and when role r grants c,
\* can(u, s, c) is true afterwards.
C13_CanMonotonic ==
    [][Called("assign_role_to_user") =>
          \A c \in valid_permissions :
              /\ \A u \in UUIDs, sid \in ServerIds :
                    Can(db, u, sid, c) => Can(db', u, sid, c)
              /\ (\E r \in db.roles : r.role_id = ret'.args[2] /\ r[c] = 1) =>
                    Can(db', ret'.args[1], ret'.args[3], c)]_vars

\* a role that withholds send_messages was assigned to a user who holds the
\* default role in that server: send_messages is still granted
C13_Witness ==
    /\ ret.op = "assign_role_to_user"
    /\ ret.status = "ok"
    /\ \E r \in get_roles_for_user_in_server(db, ret.args[1], ret.args[3]) :
          r.role_id = ret.args[2] /\ r.send_messages = 0
    /\ Cardinality(get_roles_for_user_in_server(db, ret.args[1], ret.args[3])) = 2
    /\ Can(db, ret.args[1], ret.args[3], "send_messages")

\* C14: add_user_to_server(u, s) for a user who is a member of s fails with
\* an error, it is not a silent success, and memberships and role
\* assignments stay as they were.
C14_DuplicateMembershipFails ==
    [][(Called("add_user_to_server")
          /\ is_user_in_server(db, ret'.args[1], ret'.args[2])) =>
              /\ ret'.status = "ValueError"
              /\ db' = db
              /\ disk' = disk]_vars

\* add_user_to_server("u1", 1) failed for the registered user u1, whom
\* create_user had put in server 1
C14_Witness ==
    /\ ret.op = "add_user_to_server"
    /\ ret.status = "ValueError"
    /\ ret.args = <<"u1", 1>>
    /\ user_exists(db, "u1")
    /\ is_user_in_server(db, "u1", 1)

\* C15: assign_role_to_user is idempotent.  Assigning a triple that is
\* assigned already succeeds and changes no role assignment, so rolesOf and
\* every can result stay the same.
C15_AssignIdempotent ==
    [][(Called("assign_role_to_user")
          /\ <<ret'.args[1], ret'.args[2], ret'.args[3]>> \in db.user_roles) =>
              /\ ret'.status = "ok"
              /\ db'.user_roles = db.user_roles
              /\ \A u \in UUIDs, sid \in ServerIds :
                    /\ get_roles_for_user_in_server(db', u, sid)
                          = get_roles_for_user_in_server(db, u, sid)
                    /\ \A c \in valid_permissions :
                          can_user(db', u, sid, c) = can_user(db, u, sid, c)]_vars

\* the default role, which bootstrap gave SYSTEM in server 1, was assigned
\* to SYSTEM in server 1 again
C15_Witness ==
    /\ ret.op = "assign_role_to_user"
    /\ ret.status = "ok"
    /\ ret.args = <<SYSTEM_UUID, 1, 1>>
    /\ nops >= 1

\* the documented default of a capability
DefaultOf(k) == IF k \in {"send_messages", "view_message_history"} THEN 1 ELSE 0

\* C16: create_role with a rank outside 0..255 fails and adds no role, so
\* every role has a rank in 0..255; a role created from a partial capability
\* map has the documented default for each capability the map leaves out.
C16_RankAndDefaults ==
    /\ [](\A r \in db.roles : r.rank >= 0 /\ r.rank <= 255)
    /\ [][Called("create_role") =>
            IF ret'.args[2] < 0 \/ ret'.args[2] > 255
            THEN /\ ret'.status # "ok"
                 /\ db' = db
                 /\ disk' = disk
            ELSE /\ ret'.status = "ok"
                 /\ \E r \in db'.roles :
                       /\ db'.roles = db.roles \cup {r}
                       /\ r \notin db.roles
                       /\ ret'.val = Some(r.role_id)
                       /\ r.name = ret'.args[1]
                       /\ r.rank = ret'.args[2]
                       /\ \A k \in valid_permissions :
                             r[k] = IF k \in DOMAIN ret'.args[3]
                                    THEN (IF ret'.args[3][k] THEN 1 ELSE 0)
                                    ELSE DefaultOf(k)]_vars

\* create_role with rank 256 was rejected, after a role had been created
\* from a map that names send_messages only
C16_Witness ==
    /\ ret.op = "create_role"
    /\ ret.status = "IntegrityError"
    /\ ret.args[2] = 256
    /\ \E r \in db.roles :
          r.name = "Muted" /\ r.send_messages = 0 /\ r.view_message_history = 1
              /\ r.manage_server = 0

\* C17: create_user is all-or-nothing: when the call raises, it has neither
\* added nor committed a users row.
C17_CreateUserAllOrNothing ==
    [][(Called("create_user") /\ ret'.status # "ok") =>
          /\ db'.users = db.users
          /\ disk'.users = disk.users]_vars

\* C18: referential integrity: every membership names a registered user and
\* an existing server, every role assignment a registered user, an existing
\* role and an existing server.
C18_ReferentialIntegrity ==
    /\ \A m \in db.memberships :
          user_exists(db, m[1]) /\ server_exists(db, m[2])
    /\ \A a \in db.user_roles :
          /\ user_exists(db, a[1])
          /\ \E r \in db.roles : r.role_id = a[2]
          /\ server_exists(db, a[3])

\* C19: with concurrent callers on the shared connection and cursor, every
\* can_user call returns the answer that was right in some state between
\* its call and its return.  (In SpecConc role assignments are only added
\* and roles do not change, so the right answer changes at most once, from
\* false to true: the answers at the call, at the execute and at the fetch
\* cover every state in between.)
C19_CanReadsItsOwnQuery ==
    [][\A t \in Threads :
          (pc[t] = "cu_fetch" /\ pc'[t] = "idle") =>
              ret'.val \in loc[t].seen
                  \cup {can_user(db, loc[t].args[1], loc[t].args[2], loc[t].args[3]).val}]_vars

====
